---- MODULE Spec2Model ----
(***************************************************************************)
(* The note transformation pipeline of update_field_from_fields.py:        *)
(* findNotes, paged notesInfo, per-item transcription through the run's    *)
(* cache, diff-based planning and the batched updateNoteFields/multi step. *)
(*                                                                         *)
(* Text is a sequence of one-character strings.  The remote store and the  *)
(* espeak binary are collaborators: the store answers or raises, espeak    *)
(* prints a raw transcription (a fixed function of its argument) or exits  *)
(* non-zero.                                                               *)
(***************************************************************************)
EXTENDS Integers, Sequences, FiniteSets, TLC

\* ------------------------------------------------------------------ bounds
\* Small stores hold 0..MaxSmallNotes notes; the large store holds MaxNotes
\* notes: one more than a full notesInfo page, five multi sub-batches.
MaxSmallNotes == 2
MaxNotes == 201

\* ------------------------------------------------------- program constants
BATCH == 200
MULTI_BATCH == 50
FIELD_X_DEFAULT == "Synonyms"
FIELD_Z_DEFAULT == "Synonyms"
FIELD_Y_DEFAULT == "Synonyms IPA"
LANG_DEFAULT == "en-us"

\* ------------------------------------------------------------------- text
\* What str.strip() and str.split() treat as whitespace (of the characters
\* the model uses).
WS == {" ", "\n"}

\* _ZERO_WIDTH_RE: ZWSP, ZWNJ, ZWJ, BOM.  None of them is whitespace.
ZERO_WIDTH == {"ZWSP", "ZWNJ", "ZWJ", "BOM"}

Min(a, b) == IF a < b THEN a ELSE b

RECURSIVE LStrip(_)
LStrip(s) == IF s # <<>> /\ Head(s) \in WS THEN LStrip(Tail(s)) ELSE s

RECURSIVE RStrip(_)
RStrip(s) ==
  IF s # <<>> /\ s[Len(s)] \in WS THEN RStrip(SubSeq(s, 1, Len(s) - 1)) ELSE s

\* str.strip()
Strip(s) == RStrip(LStrip(s))

\* str.split(sep) for a one-character sep: every piece, the empty ones too.
RECURSIVE SplitAcc(_, _, _)
SplitAcc(s, sep, cur) ==
  IF s = <<>> THEN << cur >>
  ELSE IF Head(s) = sep THEN << cur >> \o SplitAcc(Tail(s), sep, <<>>)
  ELSE SplitAcc(Tail(s), sep, Append(cur, Head(s)))

Split(s, sep) == SplitAcc(s, sep, <<>>)

\* str.split() with no argument: the maximal runs of non-whitespace.
RECURSIVE WordsAcc(_, _)
WordsAcc(s, cur) ==
  LET flush == IF cur = <<>> THEN <<>> ELSE << cur >>
  IN  IF s = <<>> THEN flush
      ELSE IF Head(s) \in WS THEN flush \o WordsAcc(Tail(s), <<>>)
      ELSE WordsAcc(Tail(s), Append(cur, Head(s)))

Words(s) == WordsAcc(s, <<>>)

\* sep.join(parts)
RECURSIVE Join(_, _)
Join(parts, sep) ==
  IF parts = <<>> THEN <<>>
  ELSE IF Len(parts) = 1 THEN parts[1]
  ELSE parts[1] \o sep \o Join(Tail(parts), sep)

NonEmpty(p) == p # <<>>

\* chunked with slices one element short: lst[i: i + size - 1].
chunkedShort(lst, size) ==
  [k \in 1..((Len(lst) + size - 1) \div size) |->
     SubSeq(lst, (k - 1) * size + 1, Min(k * size - 1, Len(lst)))]

\* chunked(lst, size): [lst[i: i + size] for i in range(0, len(lst), size)]
chunked(lst, size) ==
  [k \in 1..((Len(lst) + size - 1) \div size) |->
     SubSeq(lst, (k - 1) * size + 1, Min(k * size, Len(lst)))]

\* clean_ipa(s, strip_zero_width)
clean_ipa(s, strip_zero_width) ==
  LET s1 == IF strip_zero_width
            THEN SelectSeq(s, LAMBDA c : c \notin ZERO_WIDTH)
            ELSE s
  IN  Strip(Join(Words(s1), << " " >>))

\* lang.lower()
Lower(lang) == IF lang = "EN-US" THEN "en-us" ELSE lang

\* ----------------------------------------------------------------- espeak
\* What the espeak binary prints for one letter.
PhonemesA == { <<>>, << "A" >> }
PhonemesB == { <<>>, << "ZWJ", "B", " " >> }
Tools == { [a |-> pa, b |-> pb] : pa \in PhonemesA, pb \in PhonemesB }

\* The raw standard output of `espeak -q -v<voice> --ipa=3 text`: a leading
\* blank, the phonemes of the letters, a blank for each blank, a newline.
RECURSIVE EspeakBody(_, _)
EspeakBody(tool, text) ==
  IF text = <<>> THEN <<>>
  ELSE (IF Head(text) = "a" THEN tool.a
        ELSE IF Head(text) = "b" THEN tool.b
        ELSE IF Head(text) \in WS THEN << " " >>
        ELSE <<>>) \o EspeakBody(tool, Tail(text))

Espeak(tool, text) == << " " >> \o EspeakBody(tool, text) \o << "\n" >>

\* ipa_of_text: whether the binary is run at all (an empty text returns ""
\* before the subprocess call).
RunsEspeak(text) == Strip(text) # <<>>

\* ipa_of_text(text, lang, strip_zero_width) when espeak exits zero.
ipa_of_text(tool, text, strip_zero_width) ==
  IF ~RunsEspeak(text) THEN <<>>
  ELSE clean_ipa(Espeak(tool, Strip(text)), strip_zero_width)

\* -------------------------------------------------------- make_target_value
\* items = [p.strip() for p in x.split(",") if p.strip()]
ItemsOf(x) ==
  LET ps == Split(x, ",")
  IN  SelectSeq([i \in 1..Len(ps) |-> Strip(ps[i])], NonEmpty)

\* k = f"{lang.lower()}|{int(strip_zero_width)}|{item}"
CacheKey(lang, strip_zero_width, item) ==
  << Lower(lang), "|", IF strip_zero_width THEN "1" ELSE "0", "|" >> \o item

\* The store into the cache left out.
CacheStoreDropped(cache, k, ipa) == cache

\* cache[k] = ipa
CacheStore(cache, k, ipa) ==
  [q \in DOMAIN cache \cup {k} |-> IF q = k THEN ipa ELSE cache[q]]

\* The parenthetical appended even when no transcription is left.
ComposeAlwaysParen(x, ipa_items) ==
  x \o << " ", "(" >>
    \o Join(SelectSeq(ipa_items, NonEmpty), << ",", " " >>) \o << ")" >>

\* ipa_joined = ", ".join([i for i in ipa_items if i])
\* return f"{x} ({ipa_joined})" if ipa_joined else x
Compose(x, ipa_items) ==
  LET ipa_joined == Join(SelectSeq(ipa_items, NonEmpty), << ",", " " >>)
  IN  IF ipa_joined # <<>> THEN x \o << " ", "(" >> \o ipa_joined \o << ")" >>
      ELSE x

\* ------------------------------------------------------------ remote store
FieldNames == {FIELD_X_DEFAULT, FIELD_Y_DEFAULT}

Note(synonyms, synonyms_ipa) ==
  (FIELD_X_DEFAULT :> synonyms) @@ (FIELD_Y_DEFAULT :> synonyms_ipa)

\* The field contents a note of the model may start with.
Contents ==
  { Note(<< " ", "a", " ", ",", ",", " ", "b", " " >>, <<>>),
    Note(<< "a", ",", "a" >>,
         << "a", ",", "a", " ", "(", "A", ",", " ", "A", ")" >>),
    Note(<< " " >>, << "b" >>),
    Note(<< "b" >>, << "b", " " >>),
    Note(<< "," >>, <<>>),
    Note(<< "a" >>, << " " >>) }

LargePalette ==
  << Note(<< " ", "a", " ", ",", ",", " ", "b", " " >>, <<>>),
     Note(<< "b" >>, << "b", " " >>) >>

\* A store of n notes, ids 1..n, whose contents repeat a palette of two.
StoreOf(n, pal) == [i \in 1..n |-> pal[((i - 1) % 2) + 1]]

SmallStores ==
  { StoreOf(n, pal) : n \in 0..MaxSmallNotes, pal \in Contents \X Contents }

LargeStores == { StoreOf(MaxNotes, LargePalette) }

\* The command line (argparse, lines 131-151).
ArgsOf(lang, fz, szw, dry, only, lim) ==
  [field_x |-> FIELD_X_DEFAULT, field_z |-> fz, lang |-> lang,
   strip_zero_width |-> szw, dry_run |-> dry, only_if_z_empty |-> only,
   limit |-> lim]

SmallConfigs ==
  { [store |-> st, tool |-> t,
     args |-> ArgsOf(lang, fz, szw, dry, only, lim)] :
      st \in SmallStores, t \in Tools, lang \in {LANG_DEFAULT, "EN-US"},
      fz \in {FIELD_Z_DEFAULT, FIELD_Y_DEFAULT}, szw \in BOOLEAN,
      dry \in BOOLEAN, only \in BOOLEAN, lim \in {0, 1} }

LargeConfigs ==
  { [store |-> st,
     tool |-> [a |-> << "A" >>, b |-> << "ZWJ", "B", " " >>],
     args |-> ArgsOf(LANG_DEFAULT, fz, FALSE, dry, only, lim)] :
      st \in LargeStores, fz \in {FIELD_Z_DEFAULT, FIELD_Y_DEFAULT},
      dry \in BOOLEAN, only \in BOOLEAN, lim \in {0, BATCH} }

Configs == SmallConfigs \cup LargeConfigs

\* fields.get(name, {}).get("value") or ""
FieldValue(fields, name) ==
  IF name \in DOMAIN fields THEN fields[name] ELSE <<>>

\* findNotes: the ids of the matching notes.
FindNotes(st) == [i \in 1..Len(st) |-> i]

\* notesInfo(batch)
NotesInfo(st, batch) ==
  [i \in 1..Len(batch) |-> [noteId |-> batch[i], fields |-> st[batch[i]]]]

\* updateNoteFields(u) on the store.
UpdateNoteFields(st, u) ==
  [st EXCEPT ![u.id] =
     [f \in DOMAIN @ |-> IF f \in DOMAIN u.fields THEN u.fields[f] ELSE @[f]]]

\* The updateNoteFields actions of one multi request, in order.
RECURSIVE ApplyUpdates(_, _)
ApplyUpdates(st, us) ==
  IF us = <<>> THEN st
  ELSE ApplyUpdates(UpdateNoteFields(st, Head(us)), Tail(us))

\* How many actions of a rejected multi request the store may have applied
\* before it answered with an error: none, or all but the last.
AppliedBeforeReject(sub) == {0, Len(sub) - 1}

\* ------------------------------------------------------------------- state
VARIABLES
  store,            \* the remote store: note id -> field name -> value
  tool,             \* the installed espeak voice
  args,             \* the parsed command line
  pc,               \* where main is
  second,           \* TRUE in the second run of the script
  err,              \* what raised, "" when nothing did
  note_ids,         \* line 158 / 164
  pageIdx,          \* index of `batch` in chunked(note_ids, BATCH)
  infos,            \* line 172
  infoIdx,          \* index of `info` in infos
  nid, x, z, new_z, \* lines 174-191
  items, itemIdx, ipa_items,   \* make_target_value's locals
  ipa_cache,        \* line 168
  planned_updates,  \* line 169
  subIdx,           \* index of `sub` in chunked(planned_updates, MULTI_BATCH)
  store0,           \* history: the store when the run started
  infoReqs,         \* history: the notesInfo pages requested in this run
  multiReqs,        \* history: the multi requests sent in this run
  toolLog,          \* history: the espeak invocations of this run
  resolved          \* history: (item, transcription) pairs of this run

vars ==
  << store, tool, args, pc, second, err, note_ids, pageIdx, infos, infoIdx,
     nid, x, z, new_z, items, itemIdx, ipa_items, ipa_cache, planned_updates,
     subIdx, store0, infoReqs, multiReqs, toolLog, resolved >>

world == << tool, args, second, store0 >>
noteLocals == << nid, x, z, new_z, items, itemIdx, ipa_items >>
history == << infoReqs, multiReqs, toolLog, resolved >>

\* The locals of main before line 158.
Fresh ==
  /\ pc = "find" /\ err = ""
  /\ note_ids = <<>> /\ pageIdx = 0 /\ infos = <<>> /\ infoIdx = 0
  /\ nid = 0 /\ x = <<>> /\ z = <<>> /\ new_z = <<>>
  /\ items = <<>> /\ itemIdx = 0 /\ ipa_items = <<>>
  /\ ipa_cache = << >> /\ planned_updates = <<>> /\ subIdx = 0
  /\ infoReqs = <<>> /\ multiReqs = <<>> /\ toolLog = <<>> /\ resolved = {}

Init ==
  /\ \E cfg \in Configs :
       /\ store = cfg.store /\ store0 = cfg.store
       /\ tool = cfg.tool /\ args = cfg.args
  /\ second = FALSE
  /\ Fresh

pages == chunked(note_ids, BATCH)
subs == chunked(planned_updates, MULTI_BATCH)

\* anki_invoke raises (raise_for_status, a timeout, or a non-null "error"):
\* nothing in main catches it.
Raise(what) == pc' = "error" /\ err' = what

\* The cap ignored.
LimitedIgnored(ids, limit) == ids

\* if args.limit and args.limit > 0: note_ids = note_ids[:args.limit]
Limited(ids, limit) ==
  IF limit # 0 /\ limit > 0 THEN SubSeq(ids, 1, Min(limit, Len(ids))) ELSE ids

\* Lines 158-169.
FindNotesOk ==
  /\ pc = "find"
  /\ LET found == FindNotes(store)
     IN  IF found = <<>>
         THEN /\ pc' = "done"
              /\ UNCHANGED << note_ids, pageIdx >>
         ELSE /\ note_ids' = Limited(found, args.limit)
              /\ pageIdx' = 1
              /\ pc' = "page"
  /\ UNCHANGED << store, world, err, infos, infoIdx, noteLocals, ipa_cache,
                  planned_updates, subIdx, history >>

FindNotesFail ==
  /\ pc = "find"
  /\ Raise("findNotes")
  /\ UNCHANGED << store, world, note_ids, pageIdx, infos, infoIdx, noteLocals,
                  ipa_cache, planned_updates, subIdx, history >>

\* Line 172.
NotesInfoOk ==
  /\ pc = "page"
  /\ infos' = NotesInfo(store, pages[pageIdx])
  /\ infoReqs' = Append(infoReqs, pages[pageIdx])
  /\ infoIdx' = 1
  /\ pc' = "note"
  /\ UNCHANGED << store, world, err, note_ids, pageIdx, noteLocals, ipa_cache,
                  planned_updates, subIdx, multiReqs, toolLog, resolved >>

NotesInfoFail ==
  /\ pc = "page"
  /\ infoReqs' = Append(infoReqs, pages[pageIdx])
  /\ Raise("notesInfo")
  /\ UNCHANGED << store, world, note_ids, pageIdx, infos, infoIdx, noteLocals,
                  ipa_cache, planned_updates, subIdx, multiReqs, toolLog,
                  resolved >>

\* The dry-run flag ignored.
DryRunIgnored(dry_run) == FALSE

\* if args.dry_run: ... return
DryRunReturns(dry_run) == dry_run

\* Lines 199-219 indented into `for batch in ...`: the updates planned so
\* far are sent at the end of each page.
NextNoteEager ==
  IF infoIdx < Len(infos)
  THEN pc' = "note" /\ infoIdx' = infoIdx + 1 /\ UNCHANGED << pageIdx, subIdx >>
  ELSE IF ~args.dry_run /\ planned_updates' # <<>>
  THEN pc' = "mutate" /\ subIdx' = 1 /\ UNCHANGED << infoIdx, pageIdx >>
  ELSE IF pageIdx < Len(pages)
  THEN pc' = "page" /\ pageIdx' = pageIdx + 1 /\ UNCHANGED << infoIdx, subIdx >>
  ELSE pc' = "done" /\ UNCHANGED << infoIdx, pageIdx, subIdx >>

\* The end of one iteration of `for info in infos`: the next info, the next
\* batch, or lines 199-214.
NextNote ==
  IF infoIdx < Len(infos)
  THEN pc' = "note" /\ infoIdx' = infoIdx + 1 /\ UNCHANGED << pageIdx, subIdx >>
  ELSE IF pageIdx < Len(pages)
  THEN pc' = "page" /\ pageIdx' = pageIdx + 1 /\ UNCHANGED << infoIdx, subIdx >>
  ELSE /\ UNCHANGED << infoIdx, pageIdx >>
       /\ IF DryRunReturns(args.dry_run) THEN pc' = "done" /\ UNCHANGED subIdx
          ELSE IF planned_updates' = <<>> THEN pc' = "done" /\ UNCHANGED subIdx
          ELSE pc' = "mutate" /\ subIdx' = 1

\* The skip-if-populated flag ignored.
SkipsSourceOnly(only_if_z_empty, xv, zv) == xv = <<>>

\* if args.only_if_z_empty and z: continue / if not x: continue
Skips(only_if_z_empty, xv, zv) == (only_if_z_empty /\ zv # <<>>) \/ xv = <<>>

\* The comparison with the current target left out.
NeedsUpdateAlways(nz, zv) == nz # <<>>

\* if new_z and new_z != z
NeedsUpdate(nz, zv) == nz # <<>> /\ nz # zv

PlannedUpdate(id, field_z, nz) == [id |-> id, fields |-> (field_z :> nz)]

\* Lines 193-197.
Plan(id, nz, zv) ==
  planned_updates' =
    IF NeedsUpdate(nz, zv)
    THEN Append(planned_updates, PlannedUpdate(id, args.field_z, nz))
    ELSE planned_updates

\* Lines 174-184 and 99-108: one info up to the first item of its source.
\* (y, line 178, is read and passed on but never used: it is left out.)
NoteBegin ==
  /\ pc = "note"
  /\ LET info == infos[infoIdx]
         xv == Strip(FieldValue(info.fields, args.field_x))
         zv == Strip(FieldValue(info.fields, args.field_z))
         its == ItemsOf(Strip(xv))
     IN  /\ nid' = info.noteId /\ x' = xv /\ z' = zv
         /\ IF Skips(args.only_if_z_empty, xv, zv)
            THEN /\ UNCHANGED << new_z, items, itemIdx, ipa_items,
                                 planned_updates >>
                 /\ NextNote
            ELSE IF its = <<>>
            THEN /\ items' = its /\ ipa_items' = <<>> /\ new_z' = <<>>
                 /\ UNCHANGED itemIdx
                 /\ Plan(info.noteId, <<>>, zv)
                 /\ NextNote
            ELSE /\ items' = its /\ itemIdx' = 1 /\ ipa_items' = <<>>
                 /\ pc' = "item"
                 /\ UNCHANGED << new_z, planned_updates, infoIdx, pageIdx,
                                 subIdx >>
  /\ UNCHANGED << store, world, err, note_ids, infos, ipa_cache, history >>

\* Lines 117-120 and 193-197 once `ipa` is known for items[itemIdx].
ItemDone(ipa) ==
  /\ ipa_items' = Append(ipa_items, ipa)
  /\ resolved' = resolved \cup
       { [lang |-> Lower(args.lang), szw |-> args.strip_zero_width,
          item |-> items[itemIdx], ipa |-> ipa] }
  /\ IF itemIdx < Len(items)
     THEN /\ itemIdx' = itemIdx + 1
          /\ UNCHANGED << pc, new_z, planned_updates, infoIdx, pageIdx,
                          subIdx >>
     ELSE /\ new_z' = Compose(x, ipa_items')
          /\ Plan(nid, new_z', z)
          /\ UNCHANGED itemIdx
          /\ NextNote

Key == CacheKey(args.lang, args.strip_zero_width, items[itemIdx])

Invocation ==
  [nid |-> nid, lang |-> Lower(args.lang), szw |-> args.strip_zero_width,
   text |-> items[itemIdx]]

\* Lines 112-113.
CacheHit ==
  /\ pc = "item"
  /\ Key \in DOMAIN ipa_cache
  /\ ItemDone(ipa_cache[Key])
  /\ UNCHANGED << store, world, err, note_ids, infos, nid, x, z, items,
                  ipa_cache, infoReqs, multiReqs, toolLog >>

\* Lines 115-116, espeak exiting zero.
EspeakOk ==
  /\ pc = "item"
  /\ Key \notin DOMAIN ipa_cache
  /\ LET ipa == ipa_of_text(tool, items[itemIdx], args.strip_zero_width)
     IN  /\ ipa_cache' = CacheStore(ipa_cache, Key, ipa)
         /\ ItemDone(ipa)
  /\ toolLog' = IF RunsEspeak(items[itemIdx]) THEN Append(toolLog, Invocation)
                ELSE toolLog
  /\ UNCHANGED << store, world, err, note_ids, infos, nid, x, z, items,
                  infoReqs, multiReqs >>

\* Lines 85-86: espeak exits non-zero, RuntimeError.
EspeakFail ==
  /\ pc = "item"
  /\ Key \notin DOMAIN ipa_cache
  /\ RunsEspeak(items[itemIdx])
  /\ toolLog' = Append(toolLog, Invocation)
  /\ Raise("espeak")
  /\ UNCHANGED << store, world, note_ids, pageIdx, infos, infoIdx, noteLocals,
                  ipa_cache, planned_updates, subIdx, infoReqs, multiReqs,
                  resolved >>

\* The exception caught and the loop continued.
AfterRejectContinue(k, n) == IF k < n THEN "mutate" ELSE "done"

\* What main does when a multi request raises: the exception leaves main.
AfterReject(k, n) == "error"

\* Lines 214-219, the store accepting the request.
MultiOk ==
  /\ pc = "mutate"
  /\ store' = ApplyUpdates(store, subs[subIdx])
  /\ multiReqs' = Append(multiReqs, subs[subIdx])
  /\ IF subIdx < Len(subs)
     THEN subIdx' = subIdx + 1 /\ UNCHANGED pc
     ELSE pc' = "done" /\ UNCHANGED subIdx
  /\ UNCHANGED << world, err, note_ids, pageIdx, infos, infoIdx, noteLocals,
                  ipa_cache, planned_updates, infoReqs, toolLog, resolved >>

\* Lines 214-219, the store rejecting the request.
MultiReject ==
  /\ pc = "mutate"
  /\ \E j \in AppliedBeforeReject(subs[subIdx]) :
       store' = ApplyUpdates(store, SubSeq(subs[subIdx], 1, j))
  /\ multiReqs' = Append(multiReqs, subs[subIdx])
  /\ err' = "multi"
  /\ pc' = AfterReject(subIdx, Len(subs))
  /\ subIdx' = IF pc' = "mutate" THEN subIdx + 1 ELSE subIdx
  /\ UNCHANGED << world, note_ids, pageIdx, infos, infoIdx, noteLocals,
                  ipa_cache, planned_updates, infoReqs, toolLog, resolved >>

\* The operator runs the script again, same command line, after a non-dry
\* run that ended without an error.
Rerun ==
  /\ pc = "done" /\ err = "" /\ ~args.dry_run /\ ~second
  /\ second' = TRUE
  /\ store0' = store
  /\ pc' = "find"
  /\ note_ids' = <<>> /\ pageIdx' = 0 /\ infos' = <<>> /\ infoIdx' = 0
  /\ nid' = 0 /\ x' = <<>> /\ z' = <<>> /\ new_z' = <<>>
  /\ items' = <<>> /\ itemIdx' = 0 /\ ipa_items' = <<>>
  /\ ipa_cache' = << >> /\ planned_updates' = <<>> /\ subIdx' = 0
  /\ infoReqs' = <<>> /\ multiReqs' = <<>> /\ toolLog' = <<>> /\ resolved' = {}
  /\ UNCHANGED << store, tool, args, err >>

Next ==
  \/ FindNotesOk
  \/ FindNotesFail
  \/ NotesInfoOk
  \/ NotesInfoFail
  \/ NoteBegin
  \/ CacheHit
  \/ EspeakOk
  \/ EspeakFail
  \/ MultiOk
  \/ MultiReject
  \/ Rerun

Spec == Init /\ [][Next]_vars

\* ------------------------------------------------------------------ claims
RECURSIVE Flatten(_)
Flatten(seqs) == IF seqs = <<>> THEN <<>> ELSE Head(seqs) \o Flatten(Tail(seqs))

PlannedIds == [i \in 1..Len(planned_updates) |-> planned_updates[i].id]
PlannedIdSet == { planned_updates[i].id : i \in 1..Len(planned_updates) }

\* The source and target field of note n as the store held them when the
\* run started.
SourceOf(n) == FieldValue(store0[n], args.field_x)
TargetOf(n) == FieldValue(store0[n], args.field_z)

\* Selection and planning are over: every page fetched, every note decided.
PlanningOver == pc \in {"mutate", "done"} \/ err = "multi"

\* main is past the loop body for note nid (lines 174-197).
NoteDecided == nid # 0 /\ pc # "item" /\ err # "espeak"

\* Note nid went through make_target_value and had at least one item.
Transformed ==
  /\ NoteDecided
  /\ Strip(SourceOf(nid)) # <<>>
  /\ ~(args.only_if_z_empty /\ Strip(TargetOf(nid)) # <<>>)
  /\ ItemsOf(Strip(SourceOf(nid))) # <<>>

\* C1: after a non-dry run that completed, a second run with the same
\* parameters and an untouched store plans no update.
C1_SecondRunPlansNothing == second => planned_updates = <<>>

\* C2: within one run espeak is invoked at most once per (language,
\* normalization flag, item text), and every occurrence of an item with the
\* same triple resolves to the same transcription.
C2_CacheCorrect ==
  /\ \A i, j \in 1..Len(toolLog) :
       ( /\ toolLog[i].lang = toolLog[j].lang
         /\ toolLog[i].szw = toolLog[j].szw
         /\ toolLog[i].text = toolLog[j].text ) => i = j
  /\ \A r1, r2 \in resolved :
       (r1.lang = r2.lang /\ r1.szw = r2.szw /\ r1.item = r2.item)
         => r1.ipa = r2.ipa

\* An item met twice, resolved twice, espeak run once.
C2_Witness ==
  /\ Len(items) = 2 /\ items[1] = items[2] /\ Len(ipa_items) = 2
  /\ Len(toolLog) = 1 /\ err = ""

\* C3: when the multi request for sub-batch k is rejected, the run ends in
\* the error state, the rejected request is the last one sent, and the
\* updates of the sub-batches before k are in the store.
C3_RejectAborts ==
  err = "multi" =>
    /\ pc = "error"
    /\ Len(multiReqs) = subIdx
    /\ multiReqs[subIdx] = subs[subIdx]
    /\ \A k \in 1..(subIdx - 1) : \A i \in 1..Len(subs[k]) :
         store[subs[k][i].id][args.field_z] = subs[k][i].fields[args.field_z]

\* The second of more than two sub-batches was rejected.
C3_Witness ==
  err = "multi" /\ pc = "error" /\ subIdx = 2 /\ Len(subs) > 2 /\ store # store0

\* C4: a dry run sends no multi request and leaves every field of the
\* store as it was.
C4_DryRunWithholds ==
  args.dry_run => (multiReqs = <<>> /\ store = store0 /\ pc # "mutate")

\* A dry run that ended with updates planned.
C4_Witness == args.dry_run /\ pc = "done" /\ planned_updates # <<>>

\* C5: a non-dry run that ended without a failed request sent every planned
\* update in exactly one multi request, in change-set order, each request
\* carrying 1 to 50 updates.
C5_BatchedOnce ==
  /\ \A k \in 1..Len(multiReqs) :
       Len(multiReqs[k]) >= 1 /\ Len(multiReqs[k]) <= 50
  /\ (pc = "done" /\ err = "" /\ ~args.dry_run)
       => Flatten(multiReqs) = planned_updates

\* A run that ended after several sub-batches, the last one partial.
C5_Witness ==
  /\ pc = "done" /\ err = "" /\ Len(multiReqs) >= 3
  /\ Len(multiReqs[1]) = 50 /\ Len(multiReqs[Len(multiReqs)]) < 50

\* The ids findNotes returned, cut to the cap when the cap is positive.
CappedIds ==
  LET n == Len(store0)
      m == IF args.limit > 0 /\ args.limit < n THEN args.limit ELSE n
  IN  [i \in 1..m |-> i]

\* C6: the cap cuts the selected ids to the first N before paging; each
\* remaining id is requested in exactly one notesInfo page of at most 200
\* ids; the planned updates follow page order, then note order in the page.
C6_PagedPlanning ==
  /\ \A k \in 1..Len(infoReqs) : Len(infoReqs[k]) <= 200
  /\ LET asked == Flatten(infoReqs)
     IN  /\ Len(asked) <= Len(CappedIds)
         /\ asked = SubSeq(CappedIds, 1, Len(asked))
         /\ PlannedIds = SelectSeq(asked, LAMBDA n : n \in PlannedIdSet)
         /\ PlanningOver => asked = CappedIds

\* Planning ended over two pages.
C6_Witness ==
  PlanningOver /\ Len(infoReqs) = 2 /\ Len(planned_updates) > Len(infoReqs[1])

\* C7 as stated: a note whose trimmed source is empty, or whose target field
\* is non-empty while skip-if-populated is set, gets no planned update and
\* no espeak invocation.
C7_SkipsAsStated ==
  \A n \in DOMAIN store0 :
    (Strip(SourceOf(n)) = <<>> \/ (args.only_if_z_empty /\ TargetOf(n) # <<>>))
      => /\ n \notin PlannedIdSet
         /\ \A i \in 1..Len(toolLog) : toolLog[i].nid # n

\* C7 amended: the same with the target field trimmed before the test.
C7_SkipsTrimmed ==
  \A n \in DOMAIN store0 :
    (Strip(SourceOf(n)) = <<>>
       \/ (args.only_if_z_empty /\ Strip(TargetOf(n)) # <<>>))
      => /\ n \notin PlannedIdSet
         /\ \A i \in 1..Len(toolLog) : toolLog[i].nid # n

\* A note with a source and a populated target was passed over while the
\* flag was set, after another note had been transcribed and planned.
C7_Witness ==
  /\ args.only_if_z_empty /\ NoteDecided /\ pc # "error"
  /\ Strip(SourceOf(nid)) # <<>> /\ Strip(TargetOf(nid)) # <<>>
  /\ planned_updates # <<>> /\ toolLog # <<>>

\* C8 as stated: for a transformed note, an update is planned iff the
\* composed value differs from the target field value as stored.
C8_DiffAsStored ==
  Transformed => (nid \in PlannedIdSet <=> new_z # TargetOf(nid))

\* C8 amended: ... iff the composed value differs from the trimmed target
\* field value.
C8_DiffTrimmed ==
  Transformed => (nid \in PlannedIdSet <=> new_z # Strip(TargetOf(nid)))

\* In a first run, a composed value with a parenthetical equal to the
\* target: no update planned.
C8_Witness ==
  /\ ~second /\ Transformed /\ new_z = TargetOf(nid) /\ new_z # x
  /\ nid \notin PlannedIdSet

\* The transcription of one item, straight from espeak.
Transcription(item) ==
  clean_ipa(Espeak(tool, item), args.strip_zero_width)

\* C9: for a source with at least one item the composed value is the trimmed
\* source, then " (" + the non-empty transcriptions joined by ", " + ")", the
\* transcriptions in the split order of their items, duplicates kept; when
\* every transcription is empty it is the trimmed source alone.
C9_ComposedValue ==
  Transformed =>
    LET src == Strip(SourceOf(nid))
        its == ItemsOf(src)
        kept == SelectSeq([i \in 1..Len(its) |-> Transcription(its[i])],
                          NonEmpty)
    IN  /\ x = src
        /\ items = its
        /\ Len(ipa_items) = Len(its)
        /\ \A i \in 1..Len(its) : ipa_items[i] = Transcription(its[i])
        /\ (kept = <<>>) => new_z = src
        /\ (kept # <<>>) =>
             new_z = src \o << " ", "(" >> \o Join(kept, << ",", " " >>)
                         \o << ")" >>
        /\ (src = << "a", ",", "a" >> /\ tool.a = << "A" >>) =>
             new_z = << "a", ",", "a", " ", "(", "A", ",", " ", "A", ")" >>
        /\ (src = << "b" >> /\ tool.b = <<>>) => new_z = << "b" >>

\* " a ,, b " composed to "a ,, b (A, B)".
C9_Witness ==
  /\ Transformed
  /\ SourceOf(nid) = << " ", "a", " ", ",", ",", " ", "b", " " >>
  /\ args.strip_zero_width
  /\ new_z = << "a", " ", ",", ",", " ", "b", " ", "(", "A", ",", " ", "B",
                ")" >>

\* C10: a multi request is sent only after every page has been fetched and
\* every note of it transcribed; a failure of findNotes, notesInfo or espeak
\* ends the run with the store as it was.
C10_PlanningBeforeMutation ==
  /\ multiReqs # <<>> =>
       /\ Flatten(infoReqs) = note_ids
       /\ pc \in {"mutate", "done", "error"}
       /\ err \in {"", "multi"}
  /\ err \in {"findNotes", "notesInfo", "espeak"} =>
       pc = "error" /\ store = store0 /\ multiReqs = <<>>

\* espeak failed after updates had been planned.
C10_Witness == err = "espeak" /\ pc = "error" /\ planned_updates # <<>>

====
